---- MODULE Spec2Model ----
(***************************************************************************)
(* Model of lib/src/filter/mod.rs of ffplayout_engine: the Filters chain   *)
(* builder (add_filter, close_chains, build_final_chain), the filter-step  *)
(* decision functions and the filter_chains orchestrator.                  *)
(*                                                                         *)
(* Strings are modelled as sequences of tokens (a token is a record        *)
(* [tag, kind, x, y]); string concatenation is \o, starts_with looks at    *)
(* the first token.  f64 values are exact rationals <<n, d>> with d > 0,   *)
(* kept normalised.  Option<T> is <<>> (None) or <<v>> (Some(v)).          *)
(***************************************************************************)
EXTENDS Integers, Sequences, FiniteSets, TLC

VARIABLES filters, node, config, pc, i, args

vars == <<filters, node, config, pc, i, args>>

-----------------------------------------------------------------------------
(* Option<T> *)

None == <<>>

Some(v) == <<v>>

IsSome(o) == o /= <<>>

Unwrap(o) == o[1]

-----------------------------------------------------------------------------
(* f64 as exact rationals *)

Abs(n) == IF n < 0 THEN -n ELSE n

RECURSIVE Gcd(_, _)
Gcd(a, b) == IF b = 0 THEN a ELSE Gcd(b, a % b)

R(n, d) ==
    LET s == IF d < 0 THEN -1 ELSE 1
        g == Gcd(Abs(n), Abs(d))
    IN  <<(s * n) \div g, (s * d) \div g>>

Int2R(n) == <<n, 1>>

RAdd(a, b) == R(a[1] * b[2] + b[1] * a[2], a[2] * b[2])

RSub(a, b) == R(a[1] * b[2] - b[1] * a[2], a[2] * b[2])

RLt(a, b) == a[1] * b[2] < b[1] * a[2]

RLe(a, b) == a[1] * b[2] <= b[1] * a[2]

RAbs(a) == <<Abs(a[1]), a[2]>>

Zero == Int2R(0)

-----------------------------------------------------------------------------
(* Tokens of the filter program text *)

Audio == "a"

Video == "v"

FilterType == {Audio, Video}

Tok(tag, kind, x, y) == [tag |-> tag, kind |-> kind, x |-> x, y |-> y]

Op(tag) == Tok(tag, "", Zero, Zero)

Op1(tag, x) == Tok(tag, "", x, Zero)

Op2(tag, x, y) == Tok(tag, "", x, y)

\* ";" and ","
Sep == Op(";")

Comma == Op(",")

\* "[{position}:{filter_type}:{track_nr}]"
InSel(position, filter_type, track_nr) ==
    Tok("[:]", filter_type, Int2R(position), Int2R(track_nr))

\* "[{filter_type}out{nr}]"
OutLabel(filter_type, nr) == Tok("[out]", filter_type, Int2R(nr), Zero)

\* a free label such as "[v]" or "[l]"
Label(name) == Tok("[]", name, Zero, Zero)

\* str::starts_with for the prefixes the builder looks for
StartsWithGenerator(filter) ==
    Len(filter) > 0 /\ filter[1].tag \in {"aevalsrc", "movie"}

StartsWithMarker(filter) ==
    Len(filter) > 0 /\ filter[1].tag \in {";", "[:]", "[out]", "[]"}

-----------------------------------------------------------------------------
(* struct Filters *)

FiltersNew(position) ==
    [audio_chain    |-> <<>>,
     video_chain    |-> <<>>,
     final_chain    |-> <<>>,
     audio_map      |-> <<>>,
     video_map      |-> <<>>,
     output_map     |-> <<>>,
     audio_position |-> position,
     video_position |-> position,
     audio_last     |-> -1,
     video_last     |-> -1,
     cmd            |-> <<>>]

ChainOf(f, filter_type) ==
    IF filter_type = Audio THEN f.audio_chain ELSE f.video_chain

MapOf(f, filter_type) ==
    IF filter_type = Audio THEN f.audio_map ELSE f.video_map

PositionOf(f, filter_type) ==
    IF filter_type = Audio THEN f.audio_position ELSE f.video_position

LastOf(f, filter_type) ==
    IF filter_type = Audio THEN f.audio_last ELSE f.video_last

WithKind(f, filter_type, chain, map, last) ==
    IF filter_type = Audio
    THEN [f EXCEPT !.audio_chain = chain, !.audio_map = map, !.audio_last = last]
    ELSE [f EXCEPT !.video_chain = chain, !.video_map = map, !.video_last = last]

\* mutant: the previous segment is never closed
AddFilterNoClose(f, filter, track_nr, filter_type) ==
    LET chain == ChainOf(f, filter_type)
        map == MapOf(f, filter_type)
        last == LastOf(f, filter_type)
    IN  IF last /= track_nr
        THEN LET m == OutLabel(filter_type, track_nr)
                 body == IF StartsWithGenerator(filter)
                         THEN filter
                         ELSE <<InSel(PositionOf(f, filter_type), filter_type, track_nr)>>
                              \o filter
             IN  [WithKind(f, filter_type, chain \o body, Append(map, m), track_nr)
                    EXCEPT !.output_map = @ \o <<<<Op("-map")>>, <<m>>>>]
        ELSE IF StartsWithMarker(filter)
        THEN WithKind(f, filter_type, chain \o filter, map, last)
        ELSE WithKind(f, filter_type, chain \o <<Comma>> \o filter, map, last)

\* mutant: the last track is not recorded when a segment is opened
AddFilterKeepLast(f, filter, track_nr, filter_type) ==
    LET chain == ChainOf(f, filter_type)
        map == MapOf(f, filter_type)
        last == LastOf(f, filter_type)
    IN  IF last /= track_nr
        THEN LET open == chain /= <<>>
                 selector == IF open THEN <<OutLabel(filter_type, last)>> ELSE <<>>
                 sep == IF open THEN <<Sep>> ELSE <<>>
                 body == IF StartsWithGenerator(filter)
                         THEN sep \o filter
                         ELSE sep
                              \o <<InSel(PositionOf(f, filter_type), filter_type, track_nr)>>
                              \o filter
                 m == OutLabel(filter_type, track_nr)
             IN  [WithKind(f, filter_type, chain \o selector \o body, Append(map, m), last)
                    EXCEPT !.output_map = @ \o <<<<Op("-map")>>, <<m>>>>]
        ELSE IF StartsWithMarker(filter)
        THEN WithKind(f, filter_type, chain \o filter, map, last)
        ELSE WithKind(f, filter_type, chain \o <<Comma>> \o filter, map, last)

\* mutant: one last-track field is shared by both kinds
AddFilterSharedLast(f, filter, track_nr, filter_type) ==
    LET chain == ChainOf(f, filter_type)
        map == MapOf(f, filter_type)
        last == LastOf(f, filter_type)
    IN  IF last /= track_nr
        THEN LET open == chain /= <<>>
                 selector == IF open THEN <<OutLabel(filter_type, last)>> ELSE <<>>
                 sep == IF open THEN <<Sep>> ELSE <<>>
                 body == IF StartsWithGenerator(filter)
                         THEN sep \o filter
                         ELSE sep
                              \o <<InSel(PositionOf(f, filter_type), filter_type, track_nr)>>
                              \o filter
                 m == OutLabel(filter_type, track_nr)
             IN  [WithKind(f, filter_type, chain \o selector \o body, Append(map, m), track_nr)
                    EXCEPT !.output_map = @ \o <<<<Op("-map")>>, <<m>>>>,
                           !.audio_last = track_nr, !.video_last = track_nr]
        ELSE IF StartsWithMarker(filter)
        THEN WithKind(f, filter_type, chain \o filter, map, last)
        ELSE WithKind(f, filter_type, chain \o <<Comma>> \o filter, map, last)

\* Filters::add_filter
AddFilter(f, filter, track_nr, filter_type) ==
    LET chain == ChainOf(f, filter_type)
        map == MapOf(f, filter_type)
        last == LastOf(f, filter_type)
    IN  IF last /= track_nr
        THEN \* start new filter chain
             LET open == chain /= <<>>
                 selector == IF open THEN <<OutLabel(filter_type, last)>> ELSE <<>>
                 sep == IF open THEN <<Sep>> ELSE <<>>
                 body == IF StartsWithGenerator(filter)
                         THEN sep \o filter
                         ELSE sep
                              \o <<InSel(PositionOf(f, filter_type), filter_type, track_nr)>>
                              \o filter
                 m == OutLabel(filter_type, track_nr)
             IN  [WithKind(f, filter_type, chain \o selector \o body, Append(map, m), track_nr)
                    EXCEPT !.output_map = @ \o <<<<Op("-map")>>, <<m>>>>]
        ELSE IF StartsWithMarker(filter)
        THEN WithKind(f, filter_type, chain \o filter, map, last)
        ELSE WithKind(f, filter_type, chain \o <<Comma>> \o filter, map, last)

\* Filters::close_chains
CloseChains(f) ==
    [f EXCEPT !.audio_chain = @ \o <<OutLabel(Audio, f.audio_last)>>,
              !.video_chain = @ \o <<OutLabel(Video, f.video_last)>>]

\* mutant: the audio chain is put before the video chain
BuildFinalChainAudioFirst(f) ==
    LET final == f.final_chain \o f.audio_chain \o <<Sep>> \o f.video_chain
    IN  [f EXCEPT !.final_chain = final,
                  !.cmd = @ \o <<<<Op("-filter_complex")>>, final>> \o f.output_map,
                  !.output_map = <<>>]

\* Filters::build_final_chain (Vec::append leaves output_map empty)
BuildFinalChain(f) ==
    LET final == f.final_chain \o f.video_chain \o <<Sep>> \o f.audio_chain
    IN  [f EXCEPT !.final_chain = final,
                  !.cmd = @ \o <<<<Op("-filter_complex")>>, final>> \o f.output_map,
                  !.output_map = <<>>]

-----------------------------------------------------------------------------
(* crate::utils helpers and text parsing *)

\* str::parse::<f64>() on the strings that occur in the probes
ParseF64(s) ==
    CASE s = "0.5" -> Some(R(5, 10))
      [] s = "2.9" -> Some(R(29, 10))
      [] s = "2" -> Some(Int2R(2))
      [] s = "1" -> Some(Int2R(1))
      [] s = "3" -> Some(Int2R(3))
      [] s = "4" -> Some(Int2R(4))
      [] s = "5" -> Some(Int2R(5))
      [] s = "9" -> Some(Int2R(9))
      [] s = "16" -> Some(Int2R(16))
      [] s = "181" -> Some(Int2R(181))
      [] s = "100" -> Some(Int2R(100))
      [] s = "1627" -> Some(Int2R(1627))
      [] s = "900" -> Some(Int2R(900))
      [] s = "1573" -> Some(Int2R(1573))
      [] s = "409" -> Some(Int2R(409))
      [] s = "391" -> Some(Int2R(391))
      [] s = "300" -> Some(Int2R(300))
      [] s = "7" -> Some(Int2R(7))
      [] OTHER -> None

\* str::split(':') on the display_aspect_ratio strings that occur in the probes
SplitColon(s) ==
    CASE s = "16:9" -> <<"16", "9">>
      [] s = "4:3" -> <<"4", "3">>
      [] s = "2:1" -> <<"2", "1">>
      [] s = "9:5" -> <<"9", "5">>
      [] s = "181:100" -> <<"181", "100">>
      [] s = "1627:900" -> <<"1627", "900">>
      [] s = "1573:900" -> <<"1573", "900">>
      [] s = "409:300" -> <<"409", "300">>
      [] s = "391:300" -> <<"391", "300">>
      [] s = "7:4" -> <<"7", "4">>
      [] s = "16:x" -> <<"16", "x">>
      [] OTHER -> <<s>>

\* utils::is_close: |a - b| <= to
IsClose(a, b, to) == RLe(RAbs(RSub(a, b)), to)

\* utils::fps_calc: "N/D" -> N / D
FpsCalc(r_frame_rate, default) ==
    CASE r_frame_rate = "25/1" -> R(25, 1)
      [] r_frame_rate = "50/2" -> R(50, 2)
      [] r_frame_rate = "30000/1001" -> R(30000, 1001)
      [] OTHER -> default

AspectTolerance == R(3, 100)

-----------------------------------------------------------------------------
(* Filter-step decision functions *)

\* aspect_calc panics (unwrap / index out of bounds) on a malformed ratio string
AspectCalcPanics(aspect_string) ==
    /\ IsSome(aspect_string)
    /\ LET aspect_vec == SplitColon(Unwrap(aspect_string))
       IN  \/ ParseF64(aspect_vec[1]) = None
           \/ Len(aspect_vec) < 2
           \/ ParseF64(aspect_vec[2]) = None

\* mutant: without a ratio string the aspect is taken as 1
AspectCalcUnity(aspect_string, cfg) ==
    IF IsSome(aspect_string)
    THEN LET aspect_vec == SplitColon(Unwrap(aspect_string))
             w == Unwrap(ParseF64(aspect_vec[1]))
             h == Unwrap(ParseF64(aspect_vec[2]))
         IN  R(w[1] * h[2], w[2] * h[1])
    ELSE Int2R(1)

\* aspect_calc
AspectCalc(aspect_string, cfg) ==
    IF IsSome(aspect_string)
    THEN LET aspect_vec == SplitColon(Unwrap(aspect_string))
             w == Unwrap(ParseF64(aspect_vec[1]))
             h == Unwrap(ParseF64(aspect_vec[2]))
         IN  R(w[1] * h[2], w[2] * h[1])
    ELSE cfg.processing.aspect

\* deinterlace
Deinterlace(field_order, chain) ==
    IF IsSome(field_order) /\ Unwrap(field_order) /= "progressive"
    THEN AddFilter(chain, <<Op("yadif=0:-1:0")>>, 0, Video)
    ELSE chain

\* mutant: pad whenever the aspects are not exactly equal
PadExact(aspect, chain, v_stream, cfg) ==
    IF aspect /= cfg.processing.aspect
    THEN AddFilter(chain,
                   <<Op2("pad", Int2R(cfg.processing.width), Int2R(cfg.processing.height))>>,
                   0, Video)
    ELSE chain

\* pad
Pad(aspect, chain, v_stream, cfg) ==
    IF ~IsClose(aspect, cfg.processing.aspect, AspectTolerance)
    THEN LET scale ==
                 IF IsSome(v_stream.width) /\ IsSome(v_stream.height)
                 THEN IF /\ Unwrap(v_stream.width) > cfg.processing.width
                         /\ RLt(cfg.processing.aspect, aspect)
                      THEN <<Op2("scale", Int2R(cfg.processing.width), Int2R(-1)), Comma>>
                      ELSE IF /\ Unwrap(v_stream.height) > cfg.processing.height
                              /\ RLt(aspect, cfg.processing.aspect)
                      THEN <<Op2("scale", Int2R(-1), Int2R(cfg.processing.height)), Comma>>
                      ELSE <<>>
                 ELSE <<>>
         IN  AddFilter(chain,
                       scale \o <<Op2("pad", Int2R(cfg.processing.width),
                                      Int2R(cfg.processing.height))>>,
                       0, Video)
    ELSE chain

\* fps
Fps(fps, chain, cfg) ==
    IF fps /= cfg.processing.fps
    THEN AddFilter(chain, <<Op1("fps", cfg.processing.fps)>>, 0, Video)
    ELSE chain

ScaleFragment(cfg) ==
    <<Op2("scale", Int2R(cfg.processing.width), Int2R(cfg.processing.height))>>

SetdarFragment(cfg) == <<Op1("setdar", cfg.processing.aspect)>>

\* scale
Scale(width, height, aspect, chain, cfg) ==
    IF IsSome(width) /\ IsSome(height)
    THEN LET c1 == IF \/ Unwrap(width) /= cfg.processing.width
                      \/ Unwrap(height) /= cfg.processing.height
                   THEN AddFilter(chain, ScaleFragment(cfg), 0, Video)
                   ELSE AddFilter(chain, <<Op("null")>>, 0, Video)
         IN  IF ~IsClose(aspect, cfg.processing.aspect, AspectTolerance)
             THEN AddFilter(c1, SetdarFragment(cfg), 0, Video)
             ELSE c1
    ELSE AddFilter(AddFilter(chain, ScaleFragment(cfg), 0, Video),
                   SetdarFragment(cfg), 0, Video)

FadeIn(t) == Tok("fade=in:st=0:d=0.5", t, Zero, Zero)

FadeOut(t, st) == Tok("fade=out:d=1.0", t, st, Zero)

\* mutant: the fade-out is decided on the trimmed length alone
FadeAnyOut(n, chain, nr, filter_type) ==
    LET t == IF filter_type = Audio THEN "a" ELSE ""
        c1 == IF RLt(Zero, n.seek) \/ n.is_live = Some(TRUE)
              THEN AddFilter(chain, <<FadeIn(t)>>, nr, filter_type)
              ELSE chain
    IN  IF RLt(Zero, RSub(RSub(n.out, n.seek), Int2R(1)))
        THEN AddFilter(c1, <<FadeOut(t, RSub(RSub(n.out, n.seek), Int2R(1)))>>,
                       nr, filter_type)
        ELSE c1

\* mutant: the fade-out is added before the fade-in
FadeOutFirst(n, chain, nr, filter_type) ==
    LET t == IF filter_type = Audio THEN "a" ELSE ""
        c1 == IF n.out /= n.duration /\ RLt(Zero, RSub(RSub(n.out, n.seek), Int2R(1)))
              THEN AddFilter(chain, <<FadeOut(t, RSub(RSub(n.out, n.seek), Int2R(1)))>>,
                             nr, filter_type)
              ELSE chain
    IN  IF RLt(Zero, n.seek) \/ n.is_live = Some(TRUE)
        THEN AddFilter(c1, <<FadeIn(t)>>, nr, filter_type)
        ELSE c1

\* fade
Fade(n, chain, nr, filter_type) ==
    LET t == IF filter_type = Audio THEN "a" ELSE ""
        c1 == IF RLt(Zero, n.seek) \/ n.is_live = Some(TRUE)
              THEN AddFilter(chain, <<FadeIn(t)>>, nr, filter_type)
              ELSE chain
    IN  IF n.out /= n.duration /\ RLt(Zero, RSub(RSub(n.out, n.seek), Int2R(1)))
        THEN AddFilter(c1, <<FadeOut(t, RSub(RSub(n.out, n.seek), Int2R(1)))>>,
                       nr, filter_type)
        ELSE c1

\* Option<bool>::unwrap_or(false)
UnwrapOrFalse(o) == IF IsSome(o) THEN Unwrap(o) ELSE FALSE

\* overlay
Overlay(n, chain, cfg) ==
    IF /\ cfg.processing.add_logo
       /\ cfg.processing.logo_is_file
       /\ n.category /= "advertisement"
    THEN LET logo_chain ==
                 <<Op("null"), Label("v"), Sep,
                   Op("movie"), Comma, Op("setpts=N/(FRAME_RATE*TB)"), Comma,
                   Op("format=rgba"), Comma, Op("colorchannelmixer"), Label("l"), Sep,
                   Label("v"), Label("l"), Op("logo_filter:shortest=1")>>
             last == IF UnwrapOrFalse(n.last_ad)
                     THEN <<Comma, Op("fade=in:st=0:d=1.0:alpha=1")>>
                     ELSE <<>>
             next == IF UnwrapOrFalse(n.next_ad)
                     THEN <<Comma, Op1("fade=out:d=1.0:alpha=1",
                                       RSub(RSub(n.out, n.seek), Int2R(1)))>>
                     ELSE <<>>
         IN  AddFilter(chain, logo_chain \o last \o next, 0, Video)
    ELSE chain

\* Option chain of extend_video / extend_audio: first stream's parsed duration
FirstDuration(streams) ==
    IF Len(streams) > 0 /\ IsSome(streams[1].duration)
    THEN ParseF64(Unwrap(streams[1].duration))
    ELSE None

\* extend_video
ExtendVideo(n, chain) ==
    LET video_duration ==
            IF IsSome(n.probe) THEN FirstDuration(Unwrap(n.probe).video_streams) ELSE None
    IN  IF /\ IsSome(video_duration)
           /\ RLt(RAdd(RSub(Unwrap(video_duration), n.seek), R(1, 10)), RSub(n.out, n.seek))
           /\ RLe(n.out, n.duration)
        THEN AddFilter(chain,
                       <<Op1("tpad=stop_mode=add",
                             RSub(RSub(n.out, n.seek),
                                  RSub(Unwrap(video_duration), n.seek)))>>,
                       0, Video)
        ELSE chain

\* add_text (the fragment comes from v_drawtext::filter_node)
AddText(n, chain, cfg) ==
    IF /\ cfg.text.add_text
       /\ (cfg.text.text_from_filename \/ cfg.out.mode = "HLS")
    THEN AddFilter(chain, <<Op("drawtext")>>, 0, Video)
    ELSE chain

\* add_audio
AddAudio(n, chain, nr) ==
    AddFilter(chain, <<Op1("aevalsrc", RSub(n.out, n.seek))>>, nr, Audio)

\* extend_audio
ExtendAudio(n, chain, nr) ==
    LET probe == IF n.audio_is_file THEN Some(n.audio_probe) ELSE n.probe
        audio_duration ==
            IF IsSome(probe) THEN FirstDuration(Unwrap(probe).audio_streams) ELSE None
    IN  IF /\ IsSome(audio_duration)
           /\ RLt(RAdd(RSub(Unwrap(audio_duration), n.seek), R(1, 10)), RSub(n.out, n.seek))
           /\ RLe(n.out, n.duration)
        THEN AddFilter(chain, <<Op1("apad", RSub(n.out, n.seek))>>, nr, Audio)
        ELSE chain

\* add_loudnorm (the fragment comes from a_loudnorm::filter_node)
AddLoudnorm(chain, cfg, nr) ==
    IF cfg.processing.add_loudnorm
    THEN AddFilter(chain, <<Op("loudnorm")>>, nr, Audio)
    ELSE chain

\* audio_volume
AudioVolume(chain, cfg, nr) ==
    IF cfg.processing.volume /= Int2R(1)
    THEN AddFilter(chain, <<Op1("volume", cfg.processing.volume)>>, nr, Audio)
    ELSE chain

\* mutant: the factor is used however large it is
RealtimeSpeedNoUpper(n, cfg) ==
    IF IsSome(n.begin) /\ RLt(n.delta, Zero) /\ n.seek = Zero
    THEN LET duration == RSub(n.out, n.seek)
             sum == RAdd(duration, n.delta)
             speed == R(duration[1] * sum[2], duration[2] * sum[1])
         IN  IF RLt(Zero, speed) /\ RLt(n.delta, cfg.general.stop_threshold)
             THEN speed
             ELSE Int2R(1)
    ELSE Int2R(1)

\* the speed realtime() puts into its fragment
RealtimeSpeed(n, cfg) ==
    IF IsSome(n.begin) /\ RLt(n.delta, Zero) /\ n.seek = Zero
    THEN LET duration == RSub(n.out, n.seek)
             sum == RAdd(duration, n.delta)
             speed == R(duration[1] * sum[2], duration[2] * sum[1])
         IN  IF /\ RLt(Zero, speed)
                /\ RLt(speed, R(11, 10))
                /\ RLt(n.delta, cfg.general.stop_threshold)
             THEN speed
             ELSE Int2R(1)
    ELSE Int2R(1)

\* realtime
Realtime(n, chain, cfg) ==
    IF cfg.general.generate = None /\ cfg.out.mode = "HLS"
    THEN AddFilter(chain, <<Op1("realtime", RealtimeSpeed(n, cfg))>>, 0, Video)
    ELSE chain

\* custom
Custom(filter, chain, nr, filter_type) ==
    IF filter /= <<>>
    THEN AddFilter(chain, filter, nr, filter_type)
    ELSE chain

-----------------------------------------------------------------------------
(* Inputs of filter_chains: the media item and the configuration *)

MaxTracks == 2

MaxStreams == 2

MaxCalls == 3

EmptyProbe == [video_streams |-> <<>>, audio_streams |-> <<>>]

VStream(width, height, dar, field_order, r_frame_rate, duration) ==
    [width |-> width, height |-> height, display_aspect_ratio |-> dar,
     field_order |-> field_order, r_frame_rate |-> r_frame_rate, duration |-> duration]

\* a 16x9 progressive 25 fps stream without duration
PlainVStream == VStream(Some(16), Some(9), Some("16:9"), Some("progressive"), "25/1", None)

AStream(duration) == [duration |-> duration]

Geometries ==
    {[width |-> 16, height |-> 9, aspect |-> R(16, 9)],
     [width |-> 4, height |-> 3, aspect |-> R(4, 3)]}

Widths == {None, Some(4), Some(16)}

Heights == {None, Some(3), Some(9)}

AspectStrings ==
    {None, Some("16:9"), Some("4:3"), Some("2:1"), Some("9:5"), Some("181:100"),
     Some("1627:900"), Some("1573:900"), Some("409:300"), Some("391:300"), Some("7:4"),
     Some("N/A"), Some("16:x"), Some("16")}

FieldOrders == {None, Some("progressive"), Some("tt")}

FrameRates == {"25/1", "50/2", "30000/1001"}

DurationStrings == {None, Some("0.5"), Some("2.9")}

VideoDurationStrings == DurationStrings \cup {Some("N/A")}

Seeks == {Int2R(0), Int2R(1)}

Outs == {Int2R(1), Int2R(3)}

Durations == {Int2R(2), Int2R(3)}

OptBools == {None, Some(TRUE), Some(FALSE)}

Deltas == {Int2R(-5), Int2R(-3), Int2R(-1), R(-1, 5), Int2R(0), Int2R(1)}

StopThresholds == {Int2R(11), R(1, 10)}

Volumes == {Int2R(1), R(1, 2)}

\* what custom_filter::custom_filter returns for one kind: nothing, one operator,
\* text led by a generator, text led by ";".  The parameter x tells the user's
\* texts apart: 1 in the configuration's, 2 in the item's (negated for aevalsrc,
\* whose parameter in add_audio is a length >= 0).
CustomFragments(generator, x) ==
    {<<>>, <<Op1("custom", x)>>,
     <<Op1(generator, IF generator = "aevalsrc" THEN RSub(Zero, x) ELSE x), Comma,
       Op1("custom", x)>>,
     <<Sep, Label("c"), Op1("custom", x)>>}

RECURSIVE SeqsUpTo(_, _)
SeqsUpTo(S, n) ==
    IF n = 0
    THEN {<<>>}
    ELSE LET shorter == SeqsUpTo(S, n - 1)
         IN  shorter \cup {Append(q, x) : q \in {r \in shorter : Len(r) = n - 1}, x \in S}

AudioStreamLists == SeqsUpTo({AStream(d) : d \in DurationStrings}, MaxStreams)

BaseConfig ==
    [processing |-> [width |-> 16, height |-> 9, aspect |-> R(16, 9), fps |-> Int2R(25),
                     add_logo |-> FALSE, logo_is_file |-> FALSE, add_loudnorm |-> FALSE,
                     volume |-> Int2R(1), audio_tracks |-> 1,
                     custom_vf |-> <<>>, custom_af |-> <<>>],
     general |-> [generate |-> None, stop_threshold |-> Int2R(11)],
     out |-> [mode |-> "desktop"],
     text |-> [add_text |-> FALSE, text_from_filename |-> FALSE]]

BaseNode ==
    [probe |-> Some([video_streams |-> <<PlainVStream>>, audio_streams |-> <<AStream(None)>>]),
     audio_is_file |-> FALSE, audio_probe |-> EmptyProbe,
     seek |-> Int2R(0), out |-> Int2R(3), duration |-> Int2R(3),
     is_live |-> None, begin |-> None, delta |-> Zero,
     category |-> "", last_ad |-> None, next_ad |-> None,
     custom_vf |-> <<>>, custom_af |-> <<>>]

\* probe shapes without stream detail
ProbeShapes ==
    {None, Some(EmptyProbe),
     Some([video_streams |-> <<PlainVStream>>, audio_streams |-> <<AStream(None)>>])}

\* stream geometry against target geometry
GeometryInputs ==
    {<<[BaseNode EXCEPT !.probe =
            Some([video_streams |-> <<VStream(w, h, dar, Some("progressive"), "25/1", None)>>,
                  audio_streams |-> <<AStream(None)>>])],
       [BaseConfig EXCEPT !.processing.width = g.width, !.processing.height = g.height,
                          !.processing.aspect = g.aspect, !.processing.audio_tracks = n]>> :
        w \in Widths, h \in Heights, dar \in AspectStrings, g \in Geometries,
        n \in 0 .. MaxTracks}

\* field order, frame rate and duration of the video stream, and the trim window
VideoStreamInputs ==
    {<<[BaseNode EXCEPT !.probe =
            Some([video_streams |-> <<VStream(Some(16), Some(9), Some("16:9"), fo, fr, d)>>,
                  audio_streams |-> <<AStream(None)>>]),
          !.seek = s, !.out = o, !.duration = du],
       BaseConfig>> :
        fo \in FieldOrders, fr \in FrameRates, d \in VideoDurationStrings,
        s \in Seeks, o \in Outs, du \in Durations}

\* audio streams, separate audio file, track count, liveness and the trim window
AudioInputs ==
    {<<[BaseNode EXCEPT !.probe = p, !.audio_is_file = af /= None,
                        !.audio_probe = [video_streams |-> <<>>,
                                         audio_streams |-> IF af = None THEN <<>>
                                                           ELSE <<AStream(af)>>],
                        !.seek = s, !.out = o, !.duration = du, !.is_live = live],
       [BaseConfig EXCEPT !.processing.audio_tracks = n]>> :
        p \in {None} \cup {Some([video_streams |-> vs, audio_streams |-> as]) :
                              vs \in {<<>>, <<PlainVStream>>}, as \in AudioStreamLists},
        af \in {None, Some("0.5"), Some("2.9")},
        s \in Seeks, o \in Outs, du \in Durations, live \in OptBools,
        n \in 0 .. MaxTracks}

\* text overlay and realtime
RealtimeInputs ==
    {<<[BaseNode EXCEPT !.probe = p, !.begin = b, !.delta = dl, !.seek = s, !.out = o],
       [BaseConfig EXCEPT !.out.mode = m, !.general.generate = gen,
                          !.general.stop_threshold = st, !.text.add_text = tx[1],
                          !.text.text_from_filename = tx[2]]>> :
        p \in {None, Some(EmptyProbe)}, b \in {None, Some("begin")}, dl \in Deltas,
        s \in Seeks, o \in Outs, m \in {"HLS", "desktop"}, gen \in {None, Some("generate")},
        st \in StopThresholds, tx \in {<<FALSE, FALSE>>, <<TRUE, FALSE>>, <<TRUE, TRUE>>}}

\* logo overlay
OverlayInputs ==
    {<<[BaseNode EXCEPT !.probe = p, !.category = c, !.last_ad = la, !.next_ad = na,
                        !.seek = s],
       [BaseConfig EXCEPT !.processing.add_logo = logo[1],
                          !.processing.logo_is_file = logo[2]]>> :
        p \in ProbeShapes, c \in {"", "advertisement"}, la \in OptBools, na \in OptBools,
        s \in Seeks, logo \in {<<FALSE, TRUE>>, <<TRUE, FALSE>>, <<TRUE, TRUE>>}}

\* custom fragments, loudness normalisation and volume
CustomInputs ==
    {<<[BaseNode EXCEPT !.probe = p, !.custom_vf = lv, !.custom_af = la],
       [BaseConfig EXCEPT !.processing.custom_vf = pv, !.processing.custom_af = pa,
                          !.processing.add_loudnorm = ln, !.processing.volume = vol,
                          !.processing.audio_tracks = n]>> :
        p \in {None, Some(EmptyProbe)},
        lv \in CustomFragments("movie", Int2R(2)),
        la \in CustomFragments("aevalsrc", Int2R(2)),
        pv \in CustomFragments("movie", Int2R(1)),
        pa \in CustomFragments("aevalsrc", Int2R(1)),
        ln \in BOOLEAN, vol \in Volumes, n \in {0, MaxTracks}}

Inputs ==
    GeometryInputs \cup VideoStreamInputs \cup AudioInputs \cup RealtimeInputs
        \cup OverlayInputs \cup CustomInputs

NoArgs == [calls |-> 0, filter |-> <<>>, track_nr |-> 0, filter_type |-> Video]

-----------------------------------------------------------------------------
(* filter_chains, one step per called function *)

Init ==
    /\ \E in \in Inputs : node = in[1] /\ config = in[2]
    /\ filters = FiltersNew(0)
    /\ pc = "probe"
    /\ i = 0
    /\ args = NoArgs

HasVStream == IsSome(node.probe) /\ Len(Unwrap(node.probe).video_streams) > 0

VStream0 == Unwrap(node.probe).video_streams[1]

\* the locals aspect and frame_per_sec of filter_chains
Aspect == AspectCalc(VStream0.display_aspect_ratio, config)

FramePerSec == FpsCalc(VStream0.r_frame_rate, Int2R(1))

Goto(f, next) ==
    /\ filters' = f
    /\ pc' = next
    /\ UNCHANGED <<node, config, i, args>>

AudioLoop(k) == IF k < config.processing.audio_tracks THEN "track" ELSE "close_chains"

\* lines 388-395: audio input index, aspect_calc and fps_calc
Probe ==
    /\ pc = "probe"
    /\ IF IsSome(node.probe)
       THEN LET f == IF node.audio_is_file
                     THEN [filters EXCEPT !.audio_position = 1]
                     ELSE filters
            IN  IF HasVStream
                THEN IF AspectCalcPanics(VStream0.display_aspect_ratio)
                     THEN Goto(f, "panic")
                     ELSE Goto(f, "deinterlace")
                ELSE Goto(f, "extend_video")
       ELSE Goto(filters, "fps")

DoDeinterlace ==
    /\ pc = "deinterlace"
    /\ Goto(Deinterlace(VStream0.field_order, filters), "pad")

DoPad ==
    /\ pc = "pad"
    /\ Goto(Pad(Aspect, filters, VStream0, config), "fps")

DoFps ==
    /\ pc = "fps"
    /\ IF IsSome(node.probe)
       THEN Goto(Fps(FramePerSec, filters, config), "scale")
       ELSE Goto(Fps(Zero, filters, config), "scale")

DoScale ==
    /\ pc = "scale"
    /\ IF IsSome(node.probe)
       THEN Goto(Scale(VStream0.width, VStream0.height, Aspect, filters, config),
                 "extend_video")
       ELSE Goto(Scale(None, None, Int2R(1), filters, config), "add_text")

DoExtendVideo ==
    /\ pc = "extend_video"
    /\ Goto(ExtendVideo(node, filters), "add_text")

DoAddText ==
    /\ pc = "add_text"
    /\ Goto(AddText(node, filters, config), "fade")

\* mutant: the logo overlay is added before the video fade
DoFadeAfterOverlay ==
    /\ pc = "fade"
    /\ Goto(Fade(node, Overlay(node, filters, config), 0, Video), "realtime")

DoFadeVideo ==
    /\ pc = "fade"
    /\ Goto(Fade(node, filters, 0, Video), "overlay")

DoOverlay ==
    /\ pc = "overlay"
    /\ Goto(Overlay(node, filters, config), "realtime")

DoRealtime ==
    /\ pc = "realtime"
    /\ Goto(Realtime(node, filters, config), "custom_proc_vf")

CustomProcVideo ==
    /\ pc = "custom_proc_vf"
    /\ Goto(Custom(config.processing.custom_vf, filters, 0, Video), "custom_list_vf")

CustomListVideo ==
    /\ pc = "custom_list_vf"
    /\ Goto(Custom(node.custom_vf, filters, 0, Video), AudioLoop(0))

\* mutant: silence is synthesized for every item that is not live
TrackSourceBoth ==
    /\ pc = "track"
    /\ LET f == IF \/ (IsSome(node.probe) /\ i + 1 <= Len(Unwrap(node.probe).audio_streams))
                  \/ node.audio_is_file
               THEN ExtendAudio(node, filters, i)
               ELSE filters
       IN  IF ~UnwrapOrFalse(node.is_live)
           THEN Goto(AddAudio(node, f, i), "anull")
           ELSE Goto(f, "anull")

\* lines 427-441: extend_audio, add_audio or neither
TrackSource ==
    /\ pc = "track"
    /\ IF \/ (IsSome(node.probe) /\ i + 1 <= Len(Unwrap(node.probe).audio_streams))
          \/ node.audio_is_file
       THEN Goto(ExtendAudio(node, filters, i), "anull")
       ELSE IF ~UnwrapOrFalse(node.is_live)
       THEN Goto(AddAudio(node, filters, i), "anull")
       ELSE Goto(filters, "anull")

Anull ==
    /\ pc = "anull"
    /\ Goto(AddFilter(filters, <<Op("anull")>>, i, Audio), "add_loudnorm")

DoAddLoudnorm ==
    /\ pc = "add_loudnorm"
    /\ Goto(AddLoudnorm(filters, config, i), "afade")

\* mutant: the audio fades are always put on track 0
DoFadeAudioFirstTrack ==
    /\ pc = "afade"
    /\ Goto(Fade(node, filters, 0, Audio), "audio_volume")

DoFadeAudio ==
    /\ pc = "afade"
    /\ Goto(Fade(node, filters, i, Audio), "audio_volume")

DoAudioVolume ==
    /\ pc = "audio_volume"
    /\ Goto(AudioVolume(filters, config, i), "custom_proc_af")

CustomProcAudio ==
    /\ pc = "custom_proc_af"
    /\ Goto(Custom(config.processing.custom_af, filters, i, Audio), "custom_list_af")

CustomListAudio ==
    /\ pc = "custom_list_af"
    /\ filters' = Custom(node.custom_af, filters, i, Audio)
    /\ i' = i + 1
    /\ pc' = AudioLoop(i + 1)
    /\ UNCHANGED <<node, config, args>>

DoCloseChains ==
    /\ pc = "close_chains"
    /\ Goto(CloseChains(filters), "build_final_chain")

DoBuildFinalChain ==
    /\ pc = "build_final_chain"
    /\ Goto(BuildFinalChain(filters), "done")

Next ==
    \/ Probe
    \/ DoDeinterlace
    \/ DoPad
    \/ DoFps
    \/ DoScale
    \/ DoExtendVideo
    \/ DoAddText
    \/ DoFadeVideo
    \/ DoOverlay
    \/ DoRealtime
    \/ CustomProcVideo
    \/ CustomListVideo
    \/ TrackSource
    \/ Anull
    \/ DoAddLoudnorm
    \/ DoFadeAudio
    \/ DoAudioVolume
    \/ CustomProcAudio
    \/ CustomListAudio
    \/ DoCloseChains
    \/ DoBuildFinalChain

Spec == Init /\ [][Next]_vars

-----------------------------------------------------------------------------
(* The chain builder on its own: arbitrary add_filter calls *)

TrackNrs == {-1, 0, 1}

CallFragments ==
    {<<Op("f")>>, <<Op("aevalsrc")>>, <<Label("v"), Op("f")>>}

InitBuilder ==
    /\ node = BaseNode
    /\ config = BaseConfig
    /\ filters \in {FiltersNew(0), FiltersNew(1)}
    /\ pc = "builder"
    /\ i = 0
    /\ args = NoArgs

AddFilterCall ==
    /\ pc = "builder"
    /\ args.calls < MaxCalls
    /\ \E filter \in CallFragments, track_nr \in TrackNrs, filter_type \in FilterType :
          /\ filters' = AddFilter(filters, filter, track_nr, filter_type)
          /\ args' = [calls |-> args.calls + 1, filter |-> filter, track_nr |-> track_nr,
                      filter_type |-> filter_type]
    /\ UNCHANGED <<node, config, pc, i>>

SpecBuilder == InitBuilder /\ [][AddFilterCall]_vars

-----------------------------------------------------------------------------
(* Reading the produced text back *)

Positions(chain, tag) == {j \in 1 .. Len(chain) : chain[j].tag = tag}

Count(chain, tag) == Cardinality(Positions(chain, tag))

IsOutLabel(tok) == tok.tag = "[out]"

\* the out labels of a program, in order
OutLabelsOf(chain) == SelectSeq(chain, IsOutLabel)

\* segments opened in a chain: its first statement, unless the chain is only a
\* closing label, and every statement that follows a closing label
SegmentsOpened(chain) ==
    (IF chain /= <<>> /\ ~IsOutLabel(chain[1]) THEN 1 ELSE 0)
    + Cardinality({j \in 1 .. Len(chain) - 1 : IsOutLabel(chain[j]) /\ chain[j + 1] = Sep})

NoDuplicates(q) == \A a, b \in 1 .. Len(q) : a /= b => q[a] /= q[b]

\* the values of the "-map" flags of an argument list, in order
MapValues(cmd) ==
    LET idx == {j \in 1 .. Len(cmd) - 1 : cmd[j] = <<Op("-map")>>}
        IsMapValue(j) == j - 1 \in idx
        RECURSIVE Collect(_)
        Collect(j) == IF j > Len(cmd) THEN <<>>
                      ELSE IF IsMapValue(j) THEN <<cmd[j][1]>> \o Collect(j + 1)
                      ELSE Collect(j + 1)
    IN  Collect(1)

SegmentOpen(f, filter_type) ==
    LastOf(f, filter_type) /= -1 \/ ChainOf(f, filter_type) /= <<>>

-----------------------------------------------------------------------------
(* Claims *)

\* C1: an add_filter call for the kind's last track adds no input selector, no
\* label and no output-map entry; a call for another track while a segment of
\* the kind is open appends the closing label [<kind>out<last>] and one ";"
\* exactly once, pushes one label and one -map pair, and updates the last track.
C1_Step ==
    LET k == args'.filter_type
        t == args'.track_nr
        last == LastOf(filters, k)
        chain == ChainOf(filters, k)
        chain2 == ChainOf(filters', k)
        m == OutLabel(k, t)
    IN  /\ t = last =>
              /\ Count(chain2, "[:]") = Count(chain, "[:]")
              /\ Count(chain2, "[out]") = Count(chain, "[out]")
              /\ MapOf(filters', k) = MapOf(filters, k)
              /\ filters'.output_map = filters.output_map
              /\ LastOf(filters', k) = last
        /\ (t /= last /\ SegmentOpen(filters, k)) =>
              /\ Len(chain2) >= Len(chain) + 2
              /\ SubSeq(chain2, 1, Len(chain) + 2) = chain \o <<OutLabel(k, last), Sep>>
              /\ Count(chain2, "[out]") = Count(chain, "[out]") + 1
              /\ Count(chain2, ";") = Count(chain, ";") + 1 + Count(args'.filter, ";")
              /\ MapOf(filters', k) = Append(MapOf(filters, k), m)
              /\ filters'.output_map = filters.output_map \o <<<<Op("-map")>>, <<m>>>>
              /\ LastOf(filters', k) = t

C1_ChainContinuation == [][C1_Step]_vars

\* two segments of one kind, the first closed, the second continued
C1_Witness ==
    /\ pc = "builder"
    /\ Len(filters.video_map) = 2
    /\ Count(filters.video_chain, "[out]") = 1
    /\ Count(filters.video_chain, ",") >= 1
    /\ args.calls = 3

\* C2: when filter_chains ends, the output labels produced are pairwise
\* different and the number of -map entries equals the number of segments
\* opened, which is the number of distinct (kind, track) labels.
C2_LabelsUnique ==
    pc = "done" =>
        LET labels == filters.video_map \o filters.audio_map
            maps == MapValues(filters.cmd)
            opened == SegmentsOpened(filters.video_chain)
                      + SegmentsOpened(filters.audio_chain)
        IN  /\ NoDuplicates(labels)
            /\ NoDuplicates(maps)
            /\ Len(maps) = opened
            /\ Cardinality({j \in 1 .. Len(filters.cmd) : filters.cmd[j] = <<Op("-map")>>})
                 = opened
            /\ Cardinality({labels[j] : j \in 1 .. Len(labels)}) = opened

\* an invocation that opened the video segment and two audio segments
C2_Witness ==
    /\ pc = "done"
    /\ Len(filters.video_map) = 1
    /\ Len(filters.audio_map) = 2
    /\ Len(MapValues(filters.cmd)) = 3

\* C3 (as claimed): the labels of the returned -map arguments are, one to one
\* and in order, the segment output labels of the returned program, also when
\* a kind never had a filter applied.
C3_MapsMatchProgram_Claimed ==
    pc = "done" => MapValues(filters.cmd) = OutLabelsOf(filters.cmd[2])

\* C4: the returned argument list starts with -filter_complex and the program
\* (video chain, ";", audio chain), followed only by -map pairs, one per
\* opened segment in opening order: video first, audio tracks ascending.
C4_ArgumentList ==
    pc = "done" =>
        LET cmd == filters.cmd
            n == config.processing.audio_tracks
            expected == (IF filters.video_last = 0 THEN <<OutLabel(Video, 0)>> ELSE <<>>)
                        \o [k \in 1 .. n |-> OutLabel(Audio, k - 1)]
        IN  /\ Len(cmd) = 2 + 2 * Len(expected)
            /\ cmd[1] = <<Op("-filter_complex")>>
            /\ cmd[2] = filters.video_chain \o <<Sep>> \o filters.audio_chain
            /\ \A j \in 1 .. Len(expected) :
                  /\ cmd[2 * j + 1] = <<Op("-map")>>
                  /\ cmd[2 * j + 2] = <<expected[j]>>
            /\ (filters.video_chain /= <<OutLabel(Video, -1)>>) = (filters.video_last = 0)

\* a returned list with the video map and two audio maps
C4_Witness ==
    /\ pc = "done"
    /\ Len(filters.cmd) = 8
    /\ filters.video_last = 0
    /\ config.processing.audio_tracks = 2

\* C5 (as claimed): when no add_filter call was made for either kind, the
\* returned list holds no -filter_complex argument and no filter program.
C5_NoFilterComplex_Claimed ==
    (pc = "done" /\ filters.audio_last = -1 /\ filters.video_last = -1) =>
        /\ \A j \in 1 .. Len(filters.cmd) : filters.cmd[j] /= <<Op("-filter_complex")>>
        /\ filters.final_chain = <<>>

\* the place of a token in the order of the video steps (0: no step's operator)
VideoRank(chain, j) ==
    LET tok == chain[j]
    IN  CASE tok.tag = "yadif=0:-1:0" -> 1
          [] tok.tag = "pad" -> 2
          [] tok.tag = "scale" ->
                IF tok.x = Int2R(-1) \/ tok.y = Int2R(-1) THEN 2 ELSE 4
          [] tok.tag = "fps" -> 3
          [] tok.tag = "null" ->
                IF j < Len(chain) /\ chain[j + 1] = Label("v") THEN 10 ELSE 4
          [] tok.tag = "setdar" -> 5
          [] tok.tag = "tpad=stop_mode=add" -> 6
          [] tok.tag = "drawtext" -> 7
          [] tok.tag = "fade=in:st=0:d=0.5" -> 8
          [] tok.tag = "fade=out:d=1.0" -> 9
          [] tok.tag \in {"setpts=N/(FRAME_RATE*TB)", "format=rgba", "colorchannelmixer",
                          "logo_filter:shortest=1", "fade=in:st=0:d=1.0:alpha=1",
                          "fade=out:d=1.0:alpha=1"} -> 10
          [] tok.tag = "movie" -> IF tok.x = Zero THEN 10 ELSE 11 + tok.x[1]
          [] tok.tag = "realtime" -> 11
          [] tok.tag = "custom" -> 11 + tok.x[1]
          [] OTHER -> 0

\* the place of a token in the order of the steps of one audio track
AudioRank(chain, j) ==
    LET tok == chain[j]
    IN  CASE tok.tag = "apad" -> 1
          [] tok.tag = "aevalsrc" -> IF RLe(Zero, tok.x) THEN 1 ELSE 6 - tok.x[1]
          [] tok.tag = "anull" -> 2
          [] tok.tag = "loudnorm" -> 3
          [] tok.tag = "fade=in:st=0:d=0.5" -> 4
          [] tok.tag = "fade=out:d=1.0" -> 5
          [] tok.tag = "volume" -> 6
          [] tok.tag = "custom" -> 6 + tok.x[1]
          [] OTHER -> 0

\* the segment a position of a chain lies in: the closing labels before it
SegmentOf(chain, j) == Cardinality({k \in 1 .. j - 1 : IsOutLabel(chain[k])})

VideoRanks(chain) == [j \in 1 .. Len(chain) |-> VideoRank(chain, j)]

AudioRanks(chain) == [j \in 1 .. Len(chain) |-> AudioRank(chain, j)]

\* the ranks never fall along a segment
InStepOrder(chain, ranks) ==
    \A j, k \in 1 .. Len(chain) :
        (j < k /\ ranks[j] /= 0 /\ ranks[k] /= 0
           /\ SegmentOf(chain, j) = SegmentOf(chain, k))
        => ranks[j] <= ranks[k]

\* the input selectors of a chain name the tracks in ascending order
SelectorsFollowTracks(chain) ==
    \A j \in 1 .. Len(chain) :
        chain[j].tag = "[:]" => chain[j].y = Int2R(SegmentOf(chain, j))

AudioFaded(tag, t) ==
    \E j \in 1 .. Len(filters.audio_chain) :
        /\ filters.audio_chain[j].tag = tag
        /\ filters.audio_chain[j].kind = "a"
        /\ SegmentOf(filters.audio_chain, j) = t

VideoFaded(tag) ==
    \E j \in 1 .. Len(filters.video_chain) :
        filters.video_chain[j].tag = tag /\ filters.video_chain[j].kind = ""

AnyFade(tag) ==
    \/ Count(filters.video_chain, tag) > 0
    \/ Count(filters.audio_chain, tag) > 0

\* C6: the fragments of the video chain follow the order deinterlace, pad, fps,
\* scale/null, setdar, extend-video, text, fade, logo, realtime, global custom,
\* per-item custom; those of each audio track the order extend-audio or silence,
\* anull, loudnorm, fade, volume, global custom, per-item custom, the tracks in
\* ascending index; and no video fragment is added once an audio fragment exists.
C6_FixedOrder ==
    /\ [](/\ InStepOrder(filters.video_chain, VideoRanks(filters.video_chain))
          /\ InStepOrder(filters.audio_chain, AudioRanks(filters.audio_chain))
          /\ SelectorsFollowTracks(filters.audio_chain)
          /\ SelectorsFollowTracks(filters.video_chain)
          /\ Count(filters.video_chain, "[out]") <= 1)
    /\ [][(filters.audio_chain /= <<>> /\ pc /= "close_chains")
             => filters'.video_chain = filters.video_chain]_vars

\* a video chain with pad, scale, fade and logo, and an audio chain
C6_Witness ==
    /\ pc = "done"
    /\ Count(filters.video_chain, "fade=in:st=0:d=0.5") = 1
    /\ Count(filters.video_chain, "logo_filter:shortest=1") = 1
    /\ Count(filters.video_chain, "scale") = 1
    /\ Count(filters.audio_chain, "anull") >= 1

\* C7: for every configured audio track i the audio chain holds exactly one
\* segment labeled [aout<i>], with exactly one anull and with at most one of
\* the silence source (aevalsrc) and the extend-audio fragment (apad).
C7_AudioTracks ==
    pc = "done" =>
        \A t \in 0 .. config.processing.audio_tracks - 1 :
            LET chain == filters.audio_chain
                seg == {j \in 1 .. Len(chain) : SegmentOf(chain, j) = t}
                closing == {j \in seg : IsOutLabel(chain[j])}
                silence == {j \in seg : chain[j].tag = "aevalsrc" /\ RLe(Zero, chain[j].x)}
                extend == {j \in seg : chain[j].tag = "apad"}
            IN  /\ closing /= {}
                /\ \A j \in closing : chain[j] = OutLabel(Audio, t)
                /\ Cardinality({j \in 1 .. Len(chain) : chain[j] = OutLabel(Audio, t)}) = 1
                /\ Cardinality({j \in 1 .. Len(filters.audio_map) :
                                    filters.audio_map[j] = OutLabel(Audio, t)}) = 1
                /\ Cardinality({j \in seg : chain[j].tag = "anull"}) = 1
                /\ Cardinality(silence) + Cardinality(extend) <= 1

\* two tracks, the first extended, the second synthesized
C7_Witness ==
    /\ pc = "done"
    /\ config.processing.audio_tracks = 2
    /\ Count(filters.audio_chain, "apad") = 1
    /\ Count(filters.audio_chain, "aevalsrc") = 1
    /\ Count(filters.audio_chain, "anull") = 2

\* C8 (as claimed): an item with out = duration and seek = 0, live or not, gets
\* no fade-in and no fade-out, in the video chain and in every audio chain.
C8_NoFade_Claimed ==
    (node.out = node.duration /\ node.seek = Zero) =>
        ~AnyFade("fade=in:st=0:d=0.5") /\ ~AnyFade("fade=out:d=1.0")

\* C8 (amended): an item with out = duration and seek = 0 gets no fade-out; it
\* gets no fade-in unless it is live (is_live = Some(true)), and then the video
\* chain and every audio track get one.
C8_NoFadeUnlessLive ==
    (node.out = node.duration /\ node.seek = Zero) =>
        /\ ~AnyFade("fade=out:d=1.0")
        /\ node.is_live /= Some(TRUE) => ~AnyFade("fade=in:st=0:d=0.5")
        /\ (node.is_live = Some(TRUE) /\ pc = "done") =>
              /\ VideoFaded("fade=in:st=0:d=0.5")
              /\ \A t \in 0 .. config.processing.audio_tracks - 1 :
                    AudioFaded("fade=in:st=0:d=0.5", t)

\* an untrimmed item that is not live, through the video and the audio fade
C8_Witness ==
    /\ pc = "done"
    /\ node.out = node.duration
    /\ node.seek = Zero
    /\ node.is_live = Some(FALSE)
    /\ config.processing.audio_tracks = 2

\* the stream's dimensions are unknown or differ from the target's
DimsUnknownOrDiffer ==
    \/ ~HasVStream
    \/ VStream0.width = None
    \/ VStream0.height = None
    \/ Unwrap(VStream0.width) /= config.processing.width
    \/ Unwrap(VStream0.height) /= config.processing.height

ScalePresent ==
    \E j \in 1 .. Len(filters.video_chain) : filters.video_chain[j] = ScaleFragment(config)[1]

\* C9 (as claimed): scale=<target W>:<target H> is in the video chain if and
\* only if the stream's dimensions differ from the target's or are unknown (no
\* probe, no video stream in the probe, or no width or height).
C9_ScaleIff_Claimed == pc = "done" => (ScalePresent <=> DimsUnknownOrDiffer)

\* the source aspect: aspect_calc of the stream's ratio, the target without one
SourceAspect ==
    IF HasVStream THEN AspectCalc(VStream0.display_aspect_ratio, config)
    ELSE config.processing.aspect

\* C10: a pad fragment is in the video chain if and only if the source aspect S
\* and the target aspect T differ by more than 0.03.
C10_PadIff ==
    pc = "done" =>
        (Count(filters.video_chain, "pad") = 1
            <=> RLt(R(3, 100), RAbs(RSub(SourceAspect, config.processing.aspect))))
        /\ Count(filters.video_chain, "pad") <= 1

\* a padded stream whose aspect is off by little more than the tolerance
C10_Witness ==
    /\ pc = "done"
    /\ Count(filters.video_chain, "pad") = 1
    /\ HasVStream
    /\ VStream0.display_aspect_ratio = Some("181:100")
    /\ config.processing.aspect = R(16, 9)

\* the speed of the realtime fragment of the video chain
EmittedSpeeds ==
    {filters.video_chain[j].x : j \in Positions(filters.video_chain, "realtime")}

\* duration / (duration + delta) for the item, <<1, 0>> standing for +inf
SpeedFactor ==
    LET duration == RSub(node.out, node.seek)
        sum == RAdd(duration, node.delta)
    IN  R(duration[1] * sum[2], duration[2] * sum[1])

FactorInRange == RLt(Zero, SpeedFactor) /\ RLt(SpeedFactor, R(11, 10))

\* C11: the emitted realtime speed is the factor duration/(duration+delta) only
\* when 0 < factor < 1.1; without begin time, with delta >= 0, with seek /= 0,
\* or with a factor <= 0 or >= 1.1 the emitted speed is exactly 1.
C11_SpeedFactor ==
    \A speed \in EmittedSpeeds :
        /\ (\/ node.begin = None
            \/ RLe(Zero, node.delta)
            \/ node.seek /= Zero
            \/ ~FactorInRange) => speed = Int2R(1)
        /\ speed /= Int2R(1) => (speed = SpeedFactor /\ FactorInRange)
        /\ Cardinality(EmittedSpeeds) = 1

\* an item 0.2 s behind schedule, played 15/14 times as fast
C11_Witness ==
    /\ pc = "done"
    /\ node.delta = R(-1, 5)
    /\ EmittedSpeeds = {R(15, 14)}

\* C12 (as claimed): without video stream metadata (no probe, or a probe with
\* no video stream) the video chain still holds fps=<target>, scale=<target W>:
\* <target H> and setdar, and the invocation does not fail.
C12_FallbackChain_Claimed ==
    ~HasVStream =>
        /\ pc /= "panic"
        /\ pc = "done" =>
              /\ Op1("fps", config.processing.fps) \in
                    {filters.video_chain[j] : j \in 1 .. Len(filters.video_chain)}
              /\ ScalePresent
              /\ SetdarFragment(config)[1] \in
                    {filters.video_chain[j] : j \in 1 .. Len(filters.video_chain)}
              /\ filters.video_last = 0

\* the container input indices named by the input selectors of a chain
SelectorIndices(chain) == {chain[j].x : j \in Positions(chain, "[:]")}

\* C13 (as claimed): every audio input selector names input 1 when the item has
\* a separate audio file and input 0 otherwise, with or without a probe; every
\* video input selector names input 0.
C13_AudioIndex_Claimed ==
    /\ SelectorIndices(filters.audio_chain)
          \subseteq {Int2R(IF node.audio_is_file THEN 1 ELSE 0)}
    /\ SelectorIndices(filters.video_chain) \subseteq {Int2R(0)}

\* ratio strings with a non-numeric part or without a second part
MalformedRatios == {Some("N/A"), Some("16:x"), Some("16")}

\* C14: without a ratio string aspect_calc gives the configured aspect and does
\* not fail (so nothing is padded); with a malformed ratio string the invocation
\* stops in the failure state before anything is built, no argument list is
\* returned, and nothing runs after the failure; no other input fails.
C14_AspectOrFailure ==
    /\ [](HasVStream =>
            /\ VStream0.display_aspect_ratio = None =>
                  /\ pc /= "panic"
                  /\ Aspect = config.processing.aspect
                  /\ Count(filters.video_chain, "pad") = 0
            /\ VStream0.display_aspect_ratio \in MalformedRatios =>
                  /\ pc \in {"probe", "panic"}
                  /\ filters.cmd = <<>>
                  /\ filters.video_chain = <<>> /\ filters.audio_chain = <<>>)
    /\ [](pc = "panic" =>
            HasVStream /\ VStream0.display_aspect_ratio \in MalformedRatios)
    /\ [][pc /= "panic"]_vars

C14_Witness ==
    /\ pc = "panic"
    /\ VStream0.display_aspect_ratio = Some("16")
    /\ filters.cmd = <<>>

\* where the segments of a chain start: the first statement of the chain and
\* every statement after a closing label and its ";"
SegmentStarts(chain) ==
    {j \in 1 .. Len(chain) :
        /\ ~IsOutLabel(chain[j])
        /\ \/ j = 1
           \/ j > 2 /\ chain[j - 1] = Sep /\ IsOutLabel(chain[j - 2])}

\* the fragment of add_audio (the length of a custom aevalsrc text is negative)
IsSilence(tok) == tok.tag = "aevalsrc" /\ tok = Op1("aevalsrc", RSub(node.out, node.seek))

\* C15 (as claimed, the part about filter_chains): a silence-synthesized audio
\* track opens its segment and has no input selector; every other segment of
\* the video and the audio chain starts with exactly one input selector.
C15_SelectorUnlessSilence_Claimed ==
    /\ \A j \in 1 .. Len(filters.audio_chain) :
          IsSilence(filters.audio_chain[j]) => j \in SegmentStarts(filters.audio_chain)
    /\ \A chain \in {filters.video_chain, filters.audio_chain} :
          \A j \in SegmentStarts(chain) :
              \/ chain = filters.audio_chain /\ IsSilence(chain[j])
              \/ /\ chain[j].tag = "[:]"
                 /\ j < Len(chain) => chain[j + 1].tag /= "[:]"

\* the item is behind schedule by more than general.stop_threshold
LagBeyondThreshold ==
    /\ RLt(node.delta, Zero)
    /\ RLt(config.general.stop_threshold, RSub(Zero, node.delta))

\* C16 (as claimed): a realtime speed other than 1 is emitted only when the item
\* is behind schedule, seek is 0 and the lag is within general.stop_threshold;
\* when the lag exceeds the threshold the emitted speed is exactly 1.
C16_LagWithinThreshold_Claimed ==
    \A speed \in EmittedSpeeds :
        /\ speed /= Int2R(1) =>
              RLt(node.delta, Zero) /\ node.seek = Zero /\ ~LagBeyondThreshold
        /\ LagBeyondThreshold => speed = Int2R(1)

\* the audio streams behind the tracks: the audio file's when there is one
BackingStreams ==
    IF node.audio_is_file THEN node.audio_probe.audio_streams
    ELSE IF IsSome(node.probe) THEN Unwrap(node.probe).audio_streams
    ELSE <<>>

\* the parsed duration of the stream behind track t
TrackDuration(t) ==
    IF t + 1 <= Len(BackingStreams) /\ IsSome(BackingStreams[t + 1].duration)
    THEN ParseF64(Unwrap(BackingStreams[t + 1].duration))
    ELSE None

TrackHasSource(t) ==
    \/ IsSome(node.probe) /\ t + 1 <= Len(Unwrap(node.probe).audio_streams)
    \/ node.audio_is_file

Padded(t) ==
    \E j \in Positions(filters.audio_chain, "apad") : SegmentOf(filters.audio_chain, j) = t

\* the tracks of the loop that are finished
TracksPast == {t \in 0 .. config.processing.audio_tracks - 1 : t < i}

\* C17 (as claimed): a track with a probed stream or a separate audio file gets
\* apad iff the duration D of the stream behind that very track is known,
\* out - seek > D - seek + 0.1 and duration >= out.
C17_OwnDuration_Claimed ==
    \A t \in TracksPast :
        TrackHasSource(t) =>
            (Padded(t) <=>
                /\ IsSome(TrackDuration(t))
                /\ RLt(RAdd(RSub(Unwrap(TrackDuration(t)), node.seek), R(1, 10)),
                       RSub(node.out, node.seek))
                /\ RLe(node.out, node.duration))

\* the positions of a segment of a chain that hold the given fragment
Holding(chain, t, tok) ==
    {j \in 1 .. Len(chain) : chain[j] = tok /\ SegmentOf(chain, j) = t}

\* the fade tokens of a chain
Fades(chain) ==
    {chain[j] : j \in Positions(chain, "fade=in:st=0:d=0.5")
                      \cup Positions(chain, "fade=out:d=1.0")}

\* segment t of the chain holds the fades of the kind letter k that the trim
\* window asks for: the fade-in once iff seek > 0 or the item is live, the
\* fade-out once iff out /= duration and out - seek - 1.0 > 0, starting at
\* out - seek - 1.0, the fade-in first
FadedAsAsked(chain, t, k) ==
    LET st == RSub(RSub(node.out, node.seek), Int2R(1))
        ins == Holding(chain, t, FadeIn(k))
        outs == Holding(chain, t, FadeOut(k, st))
    IN  /\ Cardinality(ins) = IF RLt(Zero, node.seek) \/ node.is_live = Some(TRUE)
                              THEN 1 ELSE 0
        /\ Cardinality(outs) = IF node.out /= node.duration /\ RLt(Zero, st)
                               THEN 1 ELSE 0
        /\ \A a \in ins, b \in outs : a < b

\* C18: the video chain and every audio track are faded by the same rule: a
\* fade-in (st=0, d=0.5) iff seek > 0 or the item is live, a fade-out (d=1.0,
\* st = out - seek - 1.0) iff out /= duration and out - seek - 1.0 > 0, the
\* fade-in before the fade-out; the audio fragments differ from the video ones
\* only by the prefix "a", and there are no other fades.
C18_FadeRule ==
    pc = "done" =>
        /\ FadedAsAsked(filters.video_chain, 0, "")
        /\ \A t \in 0 .. config.processing.audio_tracks - 1 :
              FadedAsAsked(filters.audio_chain, t, "a")
        /\ Fades(filters.video_chain) \subseteq
              {FadeIn(""), FadeOut("", RSub(RSub(node.out, node.seek), Int2R(1)))}
        /\ Fades(filters.audio_chain) \subseteq
              {FadeIn("a"), FadeOut("a", RSub(RSub(node.out, node.seek), Int2R(1)))}
        /\ Cardinality(Positions(filters.audio_chain, "fade=in:st=0:d=0.5"))
              = Cardinality(Positions(filters.video_chain, "fade=in:st=0:d=0.5"))
                  * config.processing.audio_tracks
        /\ Cardinality(Positions(filters.audio_chain, "fade=out:d=1.0"))
              = Cardinality(Positions(filters.video_chain, "fade=out:d=1.0"))
                  * config.processing.audio_tracks

\* both fades on the video chain and on the second audio track
C18_Witness ==
    /\ pc = "done"
    /\ config.processing.audio_tracks = 2
    /\ node.seek = Int2R(1) /\ node.out = Int2R(3) /\ node.duration = Int2R(2)
    /\ Holding(filters.audio_chain, 1, FadeIn("a")) /= {}
    /\ Holding(filters.audio_chain, 1, FadeOut("a", Int2R(1))) /= {}
    /\ Holding(filters.video_chain, 0, FadeOut("", Int2R(1))) /= {}

\* the fields of one kind
KindState(f, filter_type) ==
    <<ChainOf(f, filter_type), MapOf(f, filter_type), LastOf(f, filter_type),
      PositionOf(f, filter_type)>>

OtherKind(filter_type) == IF filter_type = Audio THEN Video ELSE Audio

IsPrefix(q, r) == Len(q) <= Len(r) /\ SubSeq(r, 1, Len(q)) = q

\* C19: an add_filter call for one kind leaves the chain, the label map, the
\* last track and the input position of the other kind unchanged (and its own
\* position too); of the state both kinds use, the output map is only appended
\* to, and the final chain and the argument list are untouched.
C19_Step ==
    LET k == args'.filter_type
    IN  /\ KindState(filters', OtherKind(k)) = KindState(filters, OtherKind(k))
        /\ PositionOf(filters', k) = PositionOf(filters, k)
        /\ IsPrefix(ChainOf(filters, k), ChainOf(filters', k))
        /\ IsPrefix(filters.output_map, filters'.output_map)
        /\ filters'.final_chain = filters.final_chain
        /\ filters'.cmd = filters.cmd

C19_KindsIndependent == [][C19_Step]_vars

\* an audio call that opened a segment while a video segment was open on
\* another track
C19_Witness ==
    /\ pc = "builder"
    /\ args.filter_type = Audio
    /\ filters.audio_last = 1 /\ filters.video_last = 0
    /\ filters.video_chain /= <<>>
    /\ Len(filters.audio_map) = 1
    /\ Len(filters.output_map) = 4

\* the labels [<kind>out0], [<kind>out1], ... of the first n tracks
AscendingLabels(filter_type, n) == [j \in 1 .. n |-> OutLabel(filter_type, j - 1)]

\* C20: in filter_chains the video calls address track 0 only and the audio
\* calls address the tracks in ascending order: video_last is -1 or 0, the
\* video labels are at most [vout0], the audio labels are [aout0], [aout1], ...
\* up to the track of the loop, audio_last never decreases, and no label is
\* opened twice.
C20_TracksAscend ==
    /\ [](/\ filters.video_last \in {-1, 0}
          /\ filters.video_map \in {<<>>, <<OutLabel(Video, 0)>>}
          /\ filters.audio_last \in -1 .. config.processing.audio_tracks - 1
          /\ filters.audio_last <= i
          /\ filters.audio_map = AscendingLabels(Audio, Len(filters.audio_map))
          /\ Len(filters.audio_map) \in {filters.audio_last, filters.audio_last + 1}
          /\ (filters.video_last = 0 <=> filters.video_map /= <<>>)
          /\ SegmentsOpened(filters.video_chain) = Len(filters.video_map)
          /\ SegmentsOpened(filters.audio_chain) = Len(filters.audio_map))
    /\ [][/\ filters'.audio_last >= filters.audio_last
          /\ filters'.video_last >= filters.video_last
          /\ IsPrefix(filters.audio_map, filters'.audio_map)
          /\ IsPrefix(filters.video_map, filters'.video_map)]_vars

\* the video segment and both audio tracks opened, the second one faded
C20_Witness ==
    /\ pc = "done"
    /\ filters.video_last = 0
    /\ filters.audio_last = 1
    /\ filters.audio_map = <<OutLabel(Audio, 0), OutLabel(Audio, 1)>>
    /\ Holding(filters.audio_chain, 1, FadeIn("a")) /= {}

====
